---- MODULE Spec2Model ----
(***************************************************************************)
(* gpio-fan-rpm: the concurrent multi-channel measurement engine.          *)
(*                                                                         *)
(* One worker thread per channel (gpio_thread_fn) runs gpio_measure_rpm    *)
(* in a loop and records its sample in the shared result table; the        *)
(* driver (run_watch_mode or run_single_measurement) collects the table    *)
(* and prints it; the keyboard monitor and the signal handler set the      *)
(* stop flag.                                                              *)
(***************************************************************************)
EXTENDS Integers, Sequences, FiniteSets, TLC

\* ------------------------------------------------------------------ bounds
\* Largest number of channels explored (the program accepts 1..10).
MaxN == 2
\* Largest edge count one timed phase accumulates.
MaxCount == 1
\* Largest elapsed time (whole seconds) the monotonic clock reports for a phase.
MaxElapsed == 1
\* Largest pulses-per-revolution setting explored.
MaxPulses == 1
\* Number of samples per channel the statistics are followed for.
MaxRounds == 1
\* Number of gpio_measure_rpm invocations of a worker that are told apart.
MaxCalls == 2

\* The requested channels, in request order (a prefix of this list is used).
GpioList == <<18, 17, 19, 4>>

VARIABLES
    \* configuration, fixed for a run
    ngpio,              \* number of channels
    watch,              \* params.watch: continuous mode
    warmup,             \* warmup seconds
    pulses,             \* pulses per revolution
    mode,               \* output mode
    nfollow,            \* samples per channel the statistics are followed for
    \* process-wide
    stop,               \* volatile sig_atomic_t stop
    \* measurement_ctx_t
    results_mutex,      \* owner of ctx.results_mutex
    results,            \* ctx.results[i]
    finished,           \* ctx.finished[i]
    threads,            \* ctx.threads[i] != 0
    ctx_live,           \* the context has not been cleaned up
    cond_signalled,     \* ctx.all_finished: a signal has reached the waiting driver
    \* per worker (gpio_thread_fn locals)
    wpc,                \* position of worker i
    priming,            \* worker i is inside the watch-mode priming call
    count,              \* edge count of the running timed_event_loop
    wrpm,               \* rpm returned by the last gpio_measure_rpm call
    wres,               \* result code of the timed_event_loop that ended that call
    ncalls,             \* gpio_measure_rpm invocations of worker i so far (up to MaxCalls)
    handle,             \* how often worker i's gpio context was opened and closed
    \* driver
    dpc,                \* position of the driver
    stats,              \* rpm_stats_t stats[i]
    out,                \* what the current pass of the driver has written to stdout
    \* keyboard monitor
    keyboard_ret,       \* pthread_create result for the monitor (0 = created)
    kpc,                \* position of the monitor
    terminal_modified,  \* static volatile int terminal_modified
    term_mode,          \* mode and flags of the input stream (STDIN_FILENO)
    \* observers of the run (no program state)
    drv_saw_stop,       \* the driver has read stop as set
    order,              \* channels in the order they recorded since the last reset
    flushed,            \* the sample worker i recorded last has been printed and flushed
    nrounds,            \* rounds the driver has emitted (followed up to nfollow)
    \* the event source of each line request
    pending,            \* edge events queued on the request of worker i, not yet read
    \* one call of a function of the program, taken on its own
    fcall,              \* the arguments of the call
    fret                \* what the call returned

cfgvars == <<ngpio, watch, warmup, pulses, mode, nfollow>>
ctxvars == <<results_mutex, results, finished, threads, ctx_live, cond_signalled>>
wvars   == <<wpc, priming, count, wrpm, wres, ncalls, handle>>
dvars   == <<dpc, stats, out>>
kvars   == <<keyboard_ret, kpc, terminal_modified, term_mode>>
obsvars == <<drv_saw_stop, order, flushed>>
fnvars  == <<fcall, fret>>
vars    == <<cfgvars, fnvars, nrounds, pending, stop, ctxvars, wvars, dvars, kvars, obsvars>>

Chan == 1..ngpio

\* ------------------------------------------------------ mutex owner values
Free      == <<>>
Driver    == <<"driver">>
Worker(i) == <<"worker", i>>

\* --------------------------------------------------------- pure functions
\* gpio_measure_rpm's arithmetic, in whole rpm:
\* elapsed <= 0 gives 0, else (count / pulses_per_rev) / elapsed * 60.
RpmOfIgnoringPulses(cnt, ppr, elapsed) ==
    IF elapsed <= 0 THEN 0 ELSE (cnt * 60) \div elapsed
RpmOfDegenerateAsError(cnt, ppr, elapsed) ==
    IF elapsed <= 0 THEN 0 - 1 ELSE (cnt * 60) \div (ppr * elapsed)
RpmOf(cnt, ppr, elapsed) ==
    IF elapsed <= 0 THEN 0 ELSE (cnt * 60) \div (ppr * elapsed)

\* The value gpio_measure_rpm returns for an interrupted or failed phase.
Interrupted == 0 - 1

\* stats_init
stats_init == [min |-> 0, max |-> 0, sum |-> 0, count |-> 0]

\* stats_update: the first sample sets min and max, later ones are compared.
stats_update_keeps_first(s, rpm) ==
    [min   |-> IF rpm < s.min THEN rpm ELSE s.min,
     max   |-> IF rpm > s.max THEN rpm ELSE s.max,
     sum   |-> s.sum + rpm,
     count |-> s.count + 1]
stats_update(s, rpm) ==
    [min   |-> IF s.count = 0 \/ rpm < s.min THEN rpm ELSE s.min,
     max   |-> IF s.count = 0 \/ rpm > s.max THEN rpm ELSE s.max,
     sum   |-> s.sum + rpm,
     count |-> s.count + 1]

\* The driver's stats_update of one channel; the statistics of a run are
\* followed for the first nfollow samples of a channel and left alone after.
stats_follow_reset(s, rpm) == stats_update(stats_init, rpm)
stats_follow(s, rpm) ==
    IF s.count >= nfollow THEN s ELSE stats_update(s, rpm)

\* stats_avg
stats_avg(s) == IF s.count = 0 THEN 0 ELSE s.sum \div s.count

\* The channel indices in the order the output loops visit them: i = 0 .. ngpio-1.
OutputOrderByCompletion(n, ord) == ord

RECURSIVE OutputOrder(_, _)
OutputOrder(n, ord) ==
    IF n = 0 THEN <<>> ELSE Append(OutputOrder(n - 1, ord), n)

\* One formatted entry of a round (format_output / the JSON object).
Entry(i, res, st) ==
    [gpio |-> GpioList[i], rpm |-> res[i],
     min |-> st[i].min, max |-> st[i].max, avg |-> stats_avg(st[i])]

\* mode == MODE_JSON && ngpio > 1 prints one JSON array, else one line per channel.
OutputFormat(m, n) == IF m = "MODE_JSON" /\ n > 1 THEN "array" ELSE "lines"

NoOutput == [format |-> "none", entries |-> <<>>]

\* run_watch_mode's output block: every channel, in loop order.
WatchOutput(m, n, res, st, ord) ==
    LET idx == OutputOrder(n, ord)
    IN  [format  |-> OutputFormat(m, n),
         entries |-> [k \in 1..Len(idx) |-> Entry(idx[k], res, st)]]

\* run_single_measurement's output block: format_json_array and the line loop
\* both skip a slot whose value is negative.
SingleOutput(m, n, res, st, ord) ==
    LET idx  == OutputOrder(n, ord)
        kept == SelectSeq(idx, LAMBDA i : ~(res[i] < 0))
    IN  [format  |-> OutputFormat(m, n),
         entries |-> [k \in 1..Len(kept) |-> Entry(kept[k], res, st)]]

\* ---------------------------------------------------------------- initial
\* The state after measurement_create_threads has returned: the context is
\* zero-initialised (calloc), every created worker is at its entry.
InitCommon ==
    /\ ngpio \in 1..MaxN
    /\ warmup \in {0, 1}
    /\ pulses \in 1..MaxPulses
    /\ mode \in {"MODE_DEFAULT", "MODE_JSON"}
    /\ stop = FALSE
    /\ results_mutex = Free
    /\ results = [i \in Chan |-> 0]
    /\ finished = [i \in Chan |-> FALSE]
    /\ threads \in [Chan -> BOOLEAN]
    /\ ctx_live = TRUE
    /\ cond_signalled = FALSE
    /\ wpc = [i \in Chan |-> IF threads[i] THEN "init" ELSE "none"]
    /\ priming = [i \in Chan |-> FALSE]
    /\ count = [i \in Chan |-> 0]
    /\ wrpm = [i \in Chan |-> 0]
    /\ wres = [i \in Chan |-> "NONE"]
    /\ ncalls = [i \in Chan |-> 0]
    /\ handle = [i \in Chan |-> [opens |-> 0, closes |-> 0]]
    /\ stats = [i \in Chan |-> stats_init]
    /\ out = NoOutput
    /\ terminal_modified = FALSE
    /\ term_mode = "orig"
    /\ drv_saw_stop = FALSE
    /\ order = <<>>
    /\ flushed = [i \in Chan |-> FALSE]
    /\ nrounds = 0
    /\ pending = [i \in Chan |-> 0]

\* No function is looked at on its own.
NoCall == fcall = <<>> /\ fret = <<>>

\* run_watch_mode after its set-up.
WatchSetup ==
    /\ InitCommon
    /\ watch = TRUE
    /\ dpc = "outer"
    /\ keyboard_ret \in {0, 1}
    /\ kpc = IF keyboard_ret = 0 THEN "start" ELSE "none"

InitWatch == WatchSetup /\ nfollow = MaxRounds /\ NoCall

\* run_single_measurement after its set-up.
SingleSetup ==
    /\ InitCommon
    /\ watch = FALSE
    /\ dpc = "join"
    /\ keyboard_ret = 1
    /\ kpc = "none"

InitSingle == SingleSetup /\ nfollow = MaxRounds /\ NoCall

\* The program at rest, for the specifications that look at one function:
\* no thread was created and nothing runs.
Idle ==
    /\ SingleSetup
    /\ ngpio = 1
    /\ warmup = 0
    /\ pulses = 1
    /\ mode = "MODE_DEFAULT"
    /\ threads = [i \in Chan |-> FALSE]
    /\ nfollow = MaxRounds

progvars == <<cfgvars, nrounds, pending, stop, ctxvars, wvars, dvars, kvars, obsvars>>

\* ------------------------------------- gpio_measure_rpm, timed_event_loop
\* gpio_cleanup(ctx) after the measurement loop: every way out of the loop
\* (break on a negative rpm, single-shot break, the loop test) reaches it
\* before the thread returns.
ClosesNever(pc) == 0
Closes(pc) == IF pc = "done" THEN 1 ELSE 0

\* The local state of a worker: its position, whether it is inside the
\* priming call, the running edge count, the loop variable rpm and the result
\* code behind it; calls is the number of gpio_measure_rpm invocations the step
\* that leads there has begun, opens and closes the number of times that step
\* opens (gpio_init) and closes (gpio_cleanup) the worker's gpio context.
Local(pc, prim, rpm, res) ==
    [pc |-> pc, priming |-> prim, count |-> 0, wrpm |-> rpm, wres |-> res,
     calls |-> 0, opens |-> 0, closes |-> Closes(pc)]

\* The outcomes S of a step that begins k more invocations of gpio_measure_rpm.
Called(S, k) == {[l EXCEPT !.calls = @ + k] : l \in S}

\* The first phase of gpio_measure_rpm: the warmup is skipped when warmup is 0.
FirstPhase == IF warmup > 0 THEN "warmup" ELSE "measure"

\* The measurement loop of gpio_thread_fn receives rpm: a negative value
\* breaks out (cleanup, thread end), any other value goes on to be stored.
LoopCallReturnsAlwaysStore(rpm, res) ==
    {Local("lock", FALSE, rpm, res)}
LoopCallReturnsStoreInterrupted(rpm, res) ==
    IF rpm < 0 /\ res = "ERROR" THEN {Local("done", FALSE, rpm, res)}
    ELSE {Local("lock", FALSE, rpm, res)}
LoopCallReturns(rpm, res) ==
    IF rpm < 0 THEN {Local("done", FALSE, rpm, res)}
    ELSE {Local("lock", FALSE, rpm, res)}

\* A call of gpio_measure_rpm from the measurement loop starts: its first
\* timed_event_loop is entered, or fails at entry (timerfd_settime:
\* TIMED_LOOP_ERROR) and the call returns -1.0 at once.
StartLoopCall ==
    Called({Local(FirstPhase, FALSE, 0, "NONE")}
               \cup LoopCallReturns(Interrupted, "ERROR"), 1)

\* The priming call of watch mode starts; whatever it returns is dropped and
\* the measurement loop is entered.
StartPrimingCall ==
    Called({Local(FirstPhase, TRUE, 0, "NONE")} \cup StartLoopCall, 1)

\* gpio_measure_rpm returns rpm to gpio_thread_fn.
CallReturnsKeepPriming(prim, rpm, res) == LoopCallReturns(rpm, res)
CallReturns(prim, rpm, res) ==
    IF prim THEN StartLoopCall ELSE LoopCallReturns(rpm, res)

\* timed_event_loop returns res to gpio_measure_rpm in phase ph with cnt edges:
\* a completed warmup enters the measurement phase (which may fail at entry),
\* a completed measurement computes the rpm from the elapsed time, anything
\* else returns -1.0.
AfterLoopIgnoringWarmup(ph, prim, cnt, res) ==
    IF ph = "warmup"
    THEN {Local("measure", prim, 0, "NONE")}
    ELSE IF res = "COMPLETED"
         THEN UNION {CallReturns(prim, RpmOf(cnt, pulses, e), res) :
                        e \in 0..MaxElapsed}
         ELSE CallReturns(prim, Interrupted, res)
AfterLoop(ph, prim, cnt, res) ==
    IF res = "COMPLETED"
    THEN IF ph = "warmup"
         THEN {Local("measure", prim, 0, "NONE")}
                  \cup CallReturns(prim, Interrupted, "ERROR")
         ELSE UNION {CallReturns(prim, RpmOf(cnt, pulses, e), res) :
                        e \in 0..MaxElapsed}
    ELSE CallReturns(prim, Interrupted, res)

\* timerfd_create succeeded (poll on the timer) or failed (clock comparison).
\* The path is decided at entry; nothing before the loop's exit depends on it,
\* so it is drawn where the loop exits.
TimerPaths == {"timerfd", "fallback"}

\* What the loop returns after a break on a read error.
BreakResult(path, stopNow) ==
    IF path = "timerfd" THEN "INTERRUPTED"
    ELSE IF stopNow THEN "INTERRUPTED" ELSE "COMPLETED"

InPhase(i) == wpc[i] \in {"warmup", "measure"}

SetLocal(i, l) ==
    /\ wpc' = [wpc EXCEPT ![i] = l.pc]
    /\ priming' = [priming EXCEPT ![i] = l.priming]
    /\ count' = [count EXCEPT ![i] = l.count]
    /\ wrpm' = [wrpm EXCEPT ![i] = l.wrpm]
    /\ wres' = [wres EXCEPT ![i] = l.wres]
    /\ ncalls' = [ncalls EXCEPT ![i] =
                     IF @ + l.calls > MaxCalls THEN MaxCalls ELSE @ + l.calls]
    /\ handle' = [handle EXCEPT ![i] =
                     [opens |-> @.opens + l.opens, closes |-> @.closes + l.closes]]

LoopReturn(i, res) ==
    \E l \in AfterLoop(wpc[i], priming[i], count[i], res) : SetLocal(i, l)

wrest == <<cfgvars, fnvars, nrounds, pending, stop, ctxvars, dvars, kvars, obsvars>>

\* while (!stop) is left because stop is set.
LoopStop(i) ==
    /\ InPhase(i)
    /\ stop
    /\ LoopReturn(i, "INTERRUPTED")
    /\ UNCHANGED wrest

\* The phase deadline is reached (timer expiry, or the clock comparison).
LoopDeadline(i) ==
    /\ InPhase(i)
    /\ ~stop
    /\ LoopReturn(i, "COMPLETED")
    /\ UNCHANGED wrest

\* An edge event is read and counted (the warmup phase passes no counter).
LoopEdge(i) ==
    /\ wpc[i] = "measure"
    /\ ~stop
    /\ count[i] < MaxCount
    /\ count' = [count EXCEPT ![i] = @ + 1]
    /\ UNCHANGED <<wpc, priming, wrpm, wres, ncalls, handle>>
    /\ UNCHANGED wrest

\* gpio_read_event fails: break.
LoopReadError(i) ==
    /\ InPhase(i)
    /\ ~stop
    /\ \E path \in TimerPaths : LoopReturn(i, BreakResult(path, stop))
    /\ UNCHANGED wrest

\* poll fails with an error other than EINTR: break, result still INTERRUPTED.
LoopPollError(i) ==
    /\ InPhase(i)
    /\ ~stop
    /\ LoopReturn(i, "INTERRUPTED")
    /\ UNCHANGED wrest

\* -------------------------------------------------------- gpio_thread_fn
\* The outcomes S of a step in which gpio_init has opened the gpio context.
Opened(S) == {[l EXCEPT !.opens = @ + 1] : l \in S}

\* The thread returns from its initialisation: gpio_init failed (nothing was
\* opened), or gpio_request_events failed (gpio_cleanup closes the context).
InitFailures ==
    {Local("failed", FALSE, 0, "NONE"),
     [Local("failed", FALSE, 0, "NONE") EXCEPT !.opens = 1, !.closes = 1]}

\* gpio_init and gpio_request_events: on failure the thread returns at once.
WorkerInit(i) ==
    /\ wpc[i] = "init"
    /\ \E l \in Opened(IF watch THEN StartPrimingCall ELSE StartLoopCall)
                   \cup InitFailures :
          SetLocal(i, l)
    /\ UNCHANGED wrest

\* The owner of the mutex once worker i has passed pthread_mutex_lock: both
\* branches (total_threads > 1 and the single channel) lock before they store.
LockOwnerSkippedForOne(i) == IF ngpio = 1 THEN results_mutex ELSE Worker(i)
LockOwner(i) == Worker(i)

\* pthread_mutex_lock(a->results_mutex)
WorkerLock(i) ==
    /\ wpc[i] = "lock"
    /\ results_mutex = Free
    /\ results_mutex' = LockOwner(i)
    /\ wpc' = [wpc EXCEPT ![i] = "store"]
    /\ UNCHANGED <<priming, count, wrpm, wres, ncalls, handle>>
    /\ UNCHANGED <<cfgvars, fnvars, nrounds, pending, stop, results, finished, threads, ctx_live,
                   cond_signalled, dvars, kvars, obsvars>>

\* a->thread_index: the slot of the worker created for channel i.
thread_index_zero(i) == 1
thread_index(i) == i

\* "all N complete": every finished flag of the table is set.
measurement_all_done(fin, n) == \A j \in 1..n : fin[j]

\* The store is followed by pthread_cond_signal when total_threads > 1 and
\* measurement_all_done; the single-channel branch stores without a signal.
Signals(n, fin) == n > 1 /\ measurement_all_done(fin, n)

\* Store the result, mark the slot finished, signal when all are done, unlock.
\* A signal reaches the driver only when it is waiting on the condition; the
\* wait ends on the 1 s timeout as well (DriverWake).
WorkerStore(i) ==
    /\ wpc[i] = "store"
    /\ results' = [results EXCEPT ![thread_index(i)] = wrpm[i]]
    /\ finished' = [finished EXCEPT ![thread_index(i)] = TRUE]
    /\ cond_signalled' =
          (cond_signalled \/ (dpc = "wait" /\ Signals(ngpio, finished')))
    /\ results_mutex' = Free
    /\ wpc' = [wpc EXCEPT ![i] = "loop"]
    /\ wrpm' = [wrpm EXCEPT ![i] = 0]
    /\ wres' = [wres EXCEPT ![i] = "NONE"]
    /\ order' = IF \E k \in 1..Len(order) : order[k] = thread_index(i)
                THEN order ELSE Append(order, thread_index(i))
    /\ flushed' = [flushed EXCEPT ![thread_index(i)] = FALSE]
    /\ UNCHANGED <<priming, count, ncalls, handle>>
    /\ UNCHANGED <<cfgvars, fnvars, nrounds, pending, stop, threads, ctx_live, dvars, kvars, drv_saw_stop>>

\* The loop's exit test: in single-shot mode it runs once; in watch mode it
\* runs again unless stop is set.
LoopAgainUntilStop(w, stopNow) == ~stopNow
LoopAgain(w, stopNow) == w /\ ~stopNow

\* if (!a->watch) break;  } while (a->watch && !stop);  then cleanup and return.
WorkerLoop(i) ==
    /\ wpc[i] = "loop"
    /\ IF LoopAgain(watch, stop)
       THEN \E l \in StartLoopCall : SetLocal(i, l)
       ELSE SetLocal(i, Local("done", FALSE, 0, "NONE"))
    /\ UNCHANGED wrest

TerminatedOrRunning(i) == TRUE
Terminated(i) == wpc[i] \in {"none", "failed", "done"}

WorkerStep(i) ==
    \/ WorkerInit(i)
    \/ LoopStop(i)
    \/ LoopDeadline(i)
    \/ LoopEdge(i)
    \/ LoopReadError(i)
    \/ LoopPollError(i)
    \/ WorkerLock(i)
    \/ WorkerStore(i)
    \/ WorkerLoop(i)

\* --------------------------------------------------------- run_watch_mode
drest == <<cfgvars, fnvars, nrounds, pending, stop, results, threads, wvars, kvars>>

\* while (!stop) of the main loop
DriverOuter ==
    /\ dpc = "outer"
    /\ dpc' = IF stop THEN "join" ELSE "lock"
    /\ drv_saw_stop' = (drv_saw_stop \/ stop)
    /\ UNCHANGED <<results_mutex, finished, ctx_live, cond_signalled, stats, out, order, flushed>>
    /\ UNCHANGED drest

\* pthread_mutex_lock(&ctx.results_mutex)
DriverLock ==
    /\ dpc = "lock"
    /\ results_mutex = Free
    /\ results_mutex' = Driver
    /\ dpc' = "check"
    /\ UNCHANGED <<finished, ctx_live, cond_signalled, stats, out, obsvars>>
    /\ UNCHANGED drest

\* One pass of the inner while (!stop): leave it when stop is set or every
\* flag is set, else enter pthread_cond_timedwait, which releases the mutex.
WaitKeepsMutex == Driver
WaitMutex == Free

\* The inner loop's scan of ctx.finished: all_done.
all_done_any(fin, n) == \E i \in 1..n : fin[i]
all_done(fin, n) == \A i \in 1..n : fin[i]

\* The inner loop ends: while (!stop) { ... if (all_done) break; ... }
WaitOverIgnoringStop(stopNow, fin, n) == all_done(fin, n)
WaitOver(stopNow, fin, n) == stopNow \/ all_done(fin, n)

DriverCheck ==
    /\ dpc = "check"
    /\ IF WaitOver(stop, finished, ngpio)
       THEN /\ dpc' = "ifstop"
            /\ UNCHANGED results_mutex
       ELSE /\ dpc' = "wait"
            /\ results_mutex' = WaitMutex
    /\ cond_signalled' = FALSE
    /\ drv_saw_stop' = (drv_saw_stop \/ stop)
    /\ UNCHANGED <<finished, ctx_live, stats, out, order, flushed>>
    /\ UNCHANGED drest

\* pthread_cond_timedwait returns (signal, 1 s timeout or error) once the
\* mutex has been re-acquired.
DriverWakeOnSignalOnly ==
    /\ dpc = "wait"
    /\ cond_signalled
    /\ results_mutex = Free
    /\ results_mutex' = Driver
    /\ cond_signalled' = FALSE
    /\ dpc' = "check"
    /\ UNCHANGED <<finished, ctx_live, stats, out, obsvars>>
    /\ UNCHANGED drest
DriverWake ==
    /\ dpc = "wait"
    /\ results_mutex = Free
    /\ results_mutex' = Driver
    /\ cond_signalled' = FALSE
    /\ dpc' = "check"
    /\ UNCHANGED <<finished, ctx_live, stats, out, obsvars>>
    /\ UNCHANGED drest

\* if (!stop): only output if we weren't interrupted.
AfterWaitAlwaysEmit(stopNow) == "stats"
AfterWaitResetFirst(stopNow) == IF stopNow THEN "unlock" ELSE "reset"
AfterWaitOutputFirst(stopNow) == IF stopNow THEN "unlock" ELSE "output"
AfterWait(stopNow) == IF stopNow THEN "unlock" ELSE "stats"

DriverIf ==
    /\ dpc = "ifstop"
    /\ dpc' = AfterWait(stop)
    /\ drv_saw_stop' = (drv_saw_stop \/ stop)
    /\ UNCHANGED <<results_mutex, finished, ctx_live, cond_signalled, stats, out, order, flushed>>
    /\ UNCHANGED drest

\* for each i: stats_update(&stats[i], ctx.results[i])
DriverStatsUnlocked ==
    /\ dpc = "stats"
    /\ stats' = [i \in Chan |-> stats_follow(stats[i], results[i])]
    /\ dpc' = "output"
    /\ results_mutex' = Free
    /\ UNCHANGED <<finished, ctx_live, cond_signalled, out, obsvars>>
    /\ UNCHANGED drest
DriverStats ==
    /\ dpc = "stats"
    /\ stats' = [i \in Chan |-> stats_follow(stats[i], results[i])]
    /\ dpc' = "output"
    /\ UNCHANGED <<results_mutex, finished, ctx_live, cond_signalled, out, obsvars>>
    /\ UNCHANGED drest

\* print every channel in order, fflush(stdout)
DriverOutput ==
    /\ dpc = "output"
    /\ out' = WatchOutput(mode, ngpio, results, stats, order)
    /\ flushed' = [i \in Chan |-> TRUE]
    /\ nrounds' = IF nrounds < nfollow THEN nrounds + 1 ELSE nrounds
    /\ dpc' = "reset"
    /\ UNCHANGED <<results_mutex, finished, ctx_live, cond_signalled, stats, drv_saw_stop, order>>
    /\ UNCHANGED <<cfgvars, fnvars, pending, stop, results, threads, wvars, kvars>>

\* memset(ctx.finished, 0, ...)
DriverReset ==
    /\ dpc = "reset"
    /\ finished' = [i \in Chan |-> FALSE]
    /\ order' = <<>>
    /\ dpc' = "unlock"
    /\ UNCHANGED <<results_mutex, ctx_live, cond_signalled, stats, out, drv_saw_stop, flushed>>
    /\ UNCHANGED drest

\* pthread_mutex_unlock(&ctx.results_mutex)
DriverUnlock ==
    /\ dpc = "unlock"
    /\ results_mutex' = Free
    /\ dpc' = "outer"
    /\ out' = NoOutput
    /\ UNCHANGED <<finished, ctx_live, cond_signalled, stats, obsvars>>
    /\ UNCHANGED drest

\* measurement_join_threads: pthread_join of every created thread.
DriverJoinNoWait ==
    /\ dpc = "join"
    /\ dpc' = IF watch THEN "kjoin" ELSE "single_output"
    /\ UNCHANGED <<results_mutex, finished, ctx_live, cond_signalled, stats, out, obsvars>>
    /\ UNCHANGED drest
DriverJoin ==
    /\ dpc = "join"
    /\ \A i \in Chan : Terminated(i)
    /\ dpc' = IF watch THEN "kjoin" ELSE "single_output"
    /\ UNCHANGED <<results_mutex, finished, ctx_live, cond_signalled, stats, out, obsvars>>
    /\ UNCHANGED drest

\* if (keyboard_ret == 0) pthread_join(keyboard_thread, NULL)
DriverJoinKeyboard ==
    /\ dpc = "kjoin"
    /\ keyboard_ret = 0 => kpc = "done"
    /\ dpc' = "cleanup"
    /\ UNCHANGED <<results_mutex, finished, ctx_live, cond_signalled, stats, out, obsvars>>
    /\ UNCHANGED drest

\* free(stats); measurement_ctx_cleanup(&ctx); return 0
DriverCleanupClearsStop ==
    /\ dpc = "cleanup"
    /\ ctx_live' = FALSE
    /\ stop' = FALSE
    /\ dpc' = "returned"
    /\ UNCHANGED <<results_mutex, finished, cond_signalled, stats, out, obsvars>>
    /\ UNCHANGED <<cfgvars, fnvars, nrounds, pending, results, threads, wvars, kvars>>
DriverCleanup ==
    /\ dpc = "cleanup"
    /\ ctx_live' = FALSE
    /\ dpc' = "returned"
    /\ UNCHANGED <<results_mutex, finished, cond_signalled, stats, out, obsvars>>
    /\ UNCHANGED drest

\* ------------------------------------------------- run_single_measurement
\* Output results in order, fflush(stdout).
DriverSingleOutput ==
    /\ dpc = "single_output"
    /\ out' = SingleOutput(mode, ngpio, results, stats, order)
    /\ flushed' = [i \in Chan |-> TRUE]
    /\ dpc' = "cleanup"
    /\ UNCHANGED <<results_mutex, finished, ctx_live, cond_signalled, stats, drv_saw_stop, order>>
    /\ UNCHANGED drest

\* ------------------------------------------------ keyboard_monitor_thread
krest == <<cfgvars, fnvars, nrounds, pending, ctxvars, wvars, dvars, obsvars>>

\* How the entry of the monitor ends: tcgetattr fails, tcsetattr fails, or
\* the input stream is in raw non-blocking mode.
StartOutcomes == {"tcgetattr_failed", "tcsetattr_failed", "raw"}

\* tcgetattr / tcsetattr: on failure return NULL, else raw non-blocking mode
\* and terminal_modified = 1.
KeyboardStartFailureStops ==
    /\ kpc = "start"
    /\ \E o \in StartOutcomes :
          IF o = "raw"
          THEN /\ kpc' = "poll"
               /\ term_mode' = "raw"
               /\ terminal_modified' = TRUE
               /\ UNCHANGED stop
          ELSE /\ kpc' = "done"
               /\ stop' = TRUE
               /\ UNCHANGED <<term_mode, terminal_modified>>
    /\ UNCHANGED keyboard_ret
    /\ UNCHANGED krest
KeyboardStart ==
    /\ kpc = "start"
    /\ \E o \in StartOutcomes :
          IF o = "raw"
          THEN /\ kpc' = "poll"
               /\ term_mode' = "raw"
               /\ terminal_modified' = TRUE
          ELSE /\ kpc' = "done"
               /\ UNCHANGED <<term_mode, terminal_modified>>
    /\ UNCHANGED <<stop, keyboard_ret>>
    /\ UNCHANGED krest

\* restore_terminal_cleanup (pthread_cleanup_pop(1)): the saved mode and flags
\* are written back and terminal_modified is cleared.
RestoreTerminal ==
    /\ term_mode' = "orig"
    /\ terminal_modified' = FALSE

\* What one read of the input stream delivers: nothing, or one character.
Keys == {"", "q", "Q", "x"}

\* if (ch == 'q' || ch == 'Q')
IsQuitKeyLowerCase(ch) == ch = "q"
IsQuitKey(ch) == ch = "q" \/ ch = "Q"

\* One pass of while (!stop) that reads ch: the quit key sets stop and breaks,
\* which runs restore_terminal_cleanup; anything else sleeps and polls again.
KeyboardRead(ch) ==
    /\ kpc = "poll"
    /\ ~stop
    /\ IF IsQuitKey(ch)
       THEN /\ stop' = TRUE
            /\ kpc' = "done"
            /\ RestoreTerminal
       ELSE UNCHANGED <<stop, kpc, terminal_modified, term_mode>>
    /\ UNCHANGED keyboard_ret
    /\ UNCHANGED krest

\* while (!stop) is left because stop is set; restore_terminal_cleanup runs.
KeyboardExit ==
    /\ kpc = "poll"
    /\ stop
    /\ kpc' = "done"
    /\ RestoreTerminal
    /\ UNCHANGED <<stop, keyboard_ret>>
    /\ UNCHANGED krest

KeyboardPoll == KeyboardExit \/ \E ch \in Keys : KeyboardRead(ch)

\* ------------------------------------------------------ external interrupt
\* The signal handler (SIGINT / SIGTERM) sets stop.
Interrupt ==
    /\ ~stop
    /\ stop' = TRUE
    /\ UNCHANGED <<cfgvars, fnvars, nrounds, pending, ctxvars, wvars, dvars, kvars, obsvars>>

\* ------------------------------------------------------------ process exit
\* restore_terminal_atexit, registered with atexit by the monitor before it
\* changes the mode: if (terminal_modified) the saved mode and flags are
\* written back and the flag is cleared, else nothing is done.
restore_terminal_atexit ==
    IF terminal_modified
    THEN term_mode' = "orig" /\ terminal_modified' = FALSE
    ELSE UNCHANGED <<term_mode, terminal_modified>>

exitrest == <<cfgvars, fnvars, nrounds, pending, stop, ctxvars, wvars, stats, out,
              keyboard_ret, kpc, obsvars>>

\* The process exits (exit, or main returns) and the atexit handlers run.
ProcessExit ==
    /\ dpc # "exited"
    /\ dpc' = "exited"
    /\ restore_terminal_atexit
    /\ UNCHANGED exitrest

\* The process exits while the monitor is between its tcsetattr / fcntl calls
\* and the assignment terminal_modified = 1: the input stream is raw already,
\* the handler reads the flag as 0.
ProcessExitInStart ==
    /\ dpc # "exited"
    /\ kpc = "start"
    /\ dpc' = "exited"
    /\ term_mode' = "raw"
    /\ UNCHANGED terminal_modified
    /\ UNCHANGED exitrest

\* ---------------------------------------------------------- specifications
Workers == \E i \in Chan : WorkerStep(i)

WatchDriver ==
    \/ DriverOuter
    \/ DriverLock
    \/ DriverCheck
    \/ DriverWake
    \/ DriverIf
    \/ DriverStats
    \/ DriverOutput
    \/ DriverReset
    \/ DriverUnlock
    \/ DriverJoin
    \/ DriverJoinKeyboard
    \/ DriverCleanup

Keyboard == KeyboardStart \/ KeyboardPoll

\* Steps of the program's own threads in continuous mode.
WatchThreads == Workers \/ WatchDriver \/ Keyboard

WorkersNext ==
    \/ \E i \in Chan : WorkerInit(i)
    \/ \E i \in Chan : LoopStop(i)
    \/ \E i \in Chan : LoopDeadline(i)
    \/ \E i \in Chan : LoopEdge(i)
    \/ \E i \in Chan : LoopReadError(i)
    \/ \E i \in Chan : LoopPollError(i)
    \/ \E i \in Chan : WorkerLock(i)
    \/ \E i \in Chan : WorkerStore(i)
    \/ \E i \in Chan : WorkerLoop(i)

Next == WorkersNext \/ WatchDriver \/ Keyboard \/ Interrupt

\* Continuous (watch) mode.
Spec == InitWatch /\ [][Next]_vars

\* Continuous mode under the scheduler's fairness: every thread that can run
\* eventually does.  The interrupt is the environment's and is not forced.
Fairness ==
    /\ \A i \in 1..MaxN : WF_vars(i \in Chan /\ WorkerStep(i))
    /\ WF_vars(WatchDriver)
    /\ WF_vars(Keyboard)

\* The output mode is read by no guard and a run with warmup > 0 passes through
\* every position a run without warmup does, so the fair runs are explored for
\* one output mode and with the warmup phase present.
InitFair == InitWatch /\ mode = "MODE_DEFAULT" /\ warmup = 1

FairSpec == InitFair /\ [][Next]_vars /\ Fairness

\* The weakest scheduling assumption: while some thread of the program can
\* take a step, some thread eventually does.
Progress == WF_vars(WatchThreads)

ProgressSpec == InitFair /\ [][Next]_vars /\ Progress

\* Continuous mode of a process that may exit at any moment.  The input
\* stream is touched by the monitor and the exit handler only, so one channel,
\* one output mode and a created monitor are explored.
InitExit ==
    /\ InitWatch
    /\ ngpio = 1
    /\ mode = "MODE_DEFAULT"
    /\ warmup = 0
    /\ keyboard_ret = 0

NextExit ==
    \/ dpc # "exited" /\ Next
    \/ ProcessExit
    \/ ProcessExitInStart

SpecExit == InitExit /\ [][NextExit]_vars

SingleDriver == DriverJoin \/ DriverSingleOutput \/ DriverCleanup

NextSingle == WorkersNext \/ SingleDriver \/ Interrupt

\* Single-shot mode.
SpecSingle == InitSingle /\ [][NextSingle]_vars

\* Both modes.
SpecBoth == (InitWatch \/ InitSingle) /\ [][Next \/ DriverSingleOutput]_vars

\* Continuous mode with the statistics followed over MaxFollowed rounds.  The
\* statistics are read by no guard, so one output mode, no warmup phase and a
\* created monitor are explored.
MaxFollowed == 2

InitRounds ==
    /\ WatchSetup
    /\ nfollow = MaxFollowed
    /\ NoCall
    /\ mode = "MODE_DEFAULT"
    /\ warmup = 0
    /\ keyboard_ret = 0

SpecRounds == InitRounds /\ [][Next]_vars

\* --------------------------------------------------- functions on their own
\* stats_init, then stats_update sample by sample, stats_avg after each: fcall
\* is the sequence of samples so far, fret the accumulator and its average.
MaxSamples == 3
Samples == {0, 60, 800, 900, 1000}

InitStats ==
    /\ Idle
    /\ fcall = <<>>
    /\ fret = [stats |-> stats_init, avg |-> stats_avg(stats_init)]

StatsCall ==
    /\ Len(fcall) < MaxSamples
    /\ \E v \in Samples :
          /\ fcall' = Append(fcall, v)
          /\ fret' = [stats |-> stats_update(fret.stats, v),
                      avg   |-> stats_avg(stats_update(fret.stats, v))]
    /\ UNCHANGED progvars

SpecStats == InitStats /\ [][StatsCall]_vars

\* The arithmetic of gpio_measure_rpm after a completed measurement phase:
\* fcall is the edge count, the pulses-per-revolution setting and the elapsed
\* time (whole seconds, negative and zero included), fret the returned rpm and
\* where gpio_thread_fn goes with it.
EdgeCounts == {0, 1, 7, 119, 120}
PulseSettings == {1, 2, 4}
ElapsedTimes == {0 - 1, 0, 1, 2, 3}

NotCalled == [called |-> FALSE]

InitRpm ==
    /\ Idle
    /\ fcall \in [count : EdgeCounts, pulses : PulseSettings,
                   elapsed : ElapsedTimes]
    /\ fret = NotCalled

RpmCall ==
    /\ fret = NotCalled
    /\ fret' = [called |-> TRUE,
                rpm    |-> RpmOf(fcall.count, fcall.pulses, fcall.elapsed),
                next   |-> {l.pc : l \in LoopCallReturns(
                               RpmOf(fcall.count, fcall.pulses, fcall.elapsed),
                               "COMPLETED")}]
    /\ UNCHANGED fcall
    /\ UNCHANGED progvars

SpecRpm == InitRpm /\ [][RpmCall]_vars

\* parse_arguments followed by validate_arguments.  fcall is the environment
\* (GPIO_FAN_RPM_DURATION, _PULSES, _WARMUP), the options --duration, --pulses,
\* --warmup (each at most once) and the --gpio values in order; fret is whether
\* the configuration was accepted, and the configuration.
\* A value as the program receives it: a string that safe_str_to_int converts
\* to val, a string it rejects, or nothing (variable not set, option absent).
Number(v) == [kind |-> "number", val |-> v]
NotANumber == [kind |-> "text", val |-> 0]
Unset == [kind |-> "unset", val |-> 0]

\* The defaults the options start from (print_usage: default 2, 4, 1).
DefaultDuration == 2
DefaultPulses == 4
DefaultWarmup == 1

\* if (*ngpio > 10) *ngpio = 10
MaxGpios == 10

DurationArgs == {Number(v) : v \in {0, 1, 3600, 3601}}
PulsesArgs == {Number(v) : v \in {0, 1, 100, 101}}
WarmupArgs == {Number(v) : v \in {0 - 1, 0, 60, 61}}

GpioArgs ==
    {<<>>, <<17>>, <<17, 18>>, <<17, 17>>, <<1000>>,
     [k \in 1..(MaxGpios + 1) |-> k]}

\* safe_str_to_int on an environment value: 0 and the value, or -1.
EnvValue(v, default) == IF v.kind = "number" THEN v.val ELSE default

\* load_defaults: a numeric environment value replaces the default, whatever
\* its size; anything else is ignored silently.
load_defaults(env) ==
    [duration |-> EnvValue(env.duration, DefaultDuration),
     pulses   |-> EnvValue(env.pulses, DefaultPulses),
     warmup   |-> EnvValue(env.warmup, DefaultWarmup)]

\* One numeric option of parse_arguments: absent, or checked by safe_str_to_int
\* and against its range [lo, hi].
OptionOk(v, lo, hi) ==
    v.kind = "unset" \/ (v.kind = "number" /\ v.val >= lo /\ v.val <= hi)

OptionValue(v, loaded) == IF v.kind = "number" THEN v.val ELSE loaded

\* parse_arguments: rc 0 with the configuration, or rc -1.
parse_arguments(c) ==
    LET d == load_defaults(c.env)
        ok == /\ \A k \in 1..Len(c.gpios) : c.gpios[k] >= 0 /\ c.gpios[k] <= 999
              /\ OptionOk(c.opt.duration, 1, 3600)
              /\ OptionOk(c.opt.warmup, 0, 60)
              /\ OptionOk(c.opt.pulses, 1, 100)
        n  == IF Len(c.gpios) > MaxGpios THEN MaxGpios ELSE Len(c.gpios)
    IN  [rc       |-> IF ok THEN 0 ELSE 0 - 1,
         gpios    |-> SubSeq(c.gpios, 1, n),
         duration |-> OptionValue(c.opt.duration, d.duration),
         pulses   |-> OptionValue(c.opt.pulses, d.pulses),
         warmup   |-> OptionValue(c.opt.warmup, d.warmup)]

\* validate_arguments: at least one gpio, no duplicates, duration >= warmup + 1;
\* pulses is an unused parameter.
validate_arguments(gpios, duration, ppr, wu) ==
    IF Len(gpios) = 0 THEN 0 - 1
    ELSE IF \E i, j \in 1..Len(gpios) : i < j /\ gpios[i] = gpios[j] THEN 0 - 1
    ELSE IF duration < wu + 1 THEN 0 - 1
    ELSE 0

InitArgs ==
    /\ Idle
    /\ fcall \in [env : [duration : DurationArgs \cup {Unset},
                          pulses : PulsesArgs \cup {Unset},
                          warmup : WarmupArgs \cup {Unset}],
                   opt : [duration : DurationArgs \cup {Unset, NotANumber},
                          pulses : PulsesArgs \cup {Unset, NotANumber},
                          warmup : WarmupArgs \cup {Unset, NotANumber}],
                   gpios : GpioArgs]
    /\ fret = NotCalled

ArgsCall ==
    /\ fret = NotCalled
    /\ LET p == parse_arguments(fcall)
       IN  fret' = [called   |-> TRUE,
                    accepted |-> p.rc = 0 /\ validate_arguments(
                                     p.gpios, p.duration, p.pulses, p.warmup) = 0,
                    cfg      |-> p]
    /\ UNCHANGED fcall
    /\ UNCHANGED progvars

SpecArgs == InitArgs /\ [][ArgsCall]_vars

\* The wall-clock fallback of timed_event_loop, taken on its own.  fcall is
\* the phase's recorded start time, its duration in seconds and one later
\* reading of the monotonic clock; fret is what the deadline test of the loop
\* makes of that reading.
MaxSeconds == 3
MaxDuration == 2

\* struct timespec
Timespec(s, n) == [tv_sec |-> s, tv_nsec |-> n]

Times == {Timespec(s, n) : s \in 0..MaxSeconds, n \in {0, 1, 999999999}}

\* a is not later than b on the clock
TimeLeq(a, b) ==
    \/ a.tv_sec < b.tv_sec
    \/ a.tv_sec = b.tv_sec /\ a.tv_nsec <= b.tv_nsec

\* end_ts = start_ts; end_ts.tv_sec += duration_sec
end_ts(start_ts, duration_sec) ==
    [start_ts EXCEPT !.tv_sec = @ + duration_sec]

\* if (current_ts.tv_sec >= end_ts.tv_sec) return TIMED_LOOP_COMPLETED
DeadlineReached(current_ts, end) == current_ts.tv_sec >= end.tv_sec

InitClock ==
    /\ Idle
    /\ fcall \in {c \in [start_ts : Times, duration_sec : 1..MaxDuration,
                         current_ts : Times] :
                     TimeLeq(c.start_ts, c.current_ts)}
    /\ fret = NotCalled

\* One pass of while (!stop) with stop unset: the clock is read and compared.
ClockCall ==
    /\ fret = NotCalled
    /\ fret' = [called |-> TRUE,
                result |-> IF DeadlineReached(fcall.current_ts,
                                   end_ts(fcall.start_ts, fcall.duration_sec))
                           THEN "COMPLETED" ELSE "RUNNING"]
    /\ UNCHANGED fcall
    /\ UNCHANGED progvars

SpecClock == InitClock /\ [][ClockCall]_vars

\* timed_event_loop as a function of what happens while it runs.  fcall is the
\* sequence of events in the order the loop meets them: the phase deadline
\* passes, stop is set, an edge event is read, gpio_read_event fails.  fret is
\* the result code on each of the two paths, "RUNNING" while the loop has not
\* returned.
MaxEvents == 3

LoopEvents == {"deadline", "stop", "edge", "read_error"}

RECURSIVE timed_event_loop(_, _, _, _)
timed_event_loop(path, evs, k, stopNow) ==
    IF stopNow THEN "INTERRUPTED"
    ELSE IF k > Len(evs) THEN "RUNNING"
    ELSE IF evs[k] = "stop" THEN timed_event_loop(path, evs, k + 1, TRUE)
    ELSE IF evs[k] = "deadline" THEN "COMPLETED"
    ELSE IF evs[k] = "edge" THEN timed_event_loop(path, evs, k + 1, stopNow)
    ELSE BreakResult(path, stopNow)

EventSeqs == UNION {[1..n -> LoopEvents] : n \in 0..MaxEvents}

InitLoop ==
    /\ Idle
    /\ fcall \in EventSeqs
    /\ fret = NotCalled

LoopCall ==
    /\ fret = NotCalled
    /\ fret' = [called |-> TRUE,
                result |-> [p \in TimerPaths |->
                               timed_event_loop(p, fcall, 1, FALSE)]]
    /\ UNCHANGED fcall
    /\ UNCHANGED progvars

SpecLoop == InitLoop /\ [][LoopCall]_vars

\* The event source of a line request.  gpio_request_events opens the request
\* and from then on the kernel queues every edge on it; gpio_read_event takes
\* one queued event per call and nothing else empties the queue.  pending[i]
\* counts the queued edges that arrived while worker i was not measuring a
\* sample: in its warmup phase, in its priming call, or between two calls.
MaxPending == 1

EdgeArrives(i) ==
    /\ handle[i].opens > handle[i].closes
    /\ wpc[i] # "measure" \/ priming[i]
    /\ pending[i] < MaxPending
    /\ pending' = [pending EXCEPT ![i] = @ + 1]
    /\ UNCHANGED <<cfgvars, fnvars, nrounds, stop, ctxvars, wvars, dvars, kvars, obsvars>>

\* A pass of the phase loop finds the event source readable and reads one
\* queued event: if (count) (*count)++.
LoopQueuedEdge(i) ==
    /\ InPhase(i)
    /\ ~stop
    /\ pending[i] > 0
    /\ pending' = [pending EXCEPT ![i] = @ - 1]
    /\ IF wpc[i] = "measure"
       THEN /\ count[i] < MaxCount
            /\ count' = [count EXCEPT ![i] = @ + 1]
       ELSE UNCHANGED count
    /\ UNCHANGED <<wpc, priming, wrpm, wres, ncalls, handle>>
    /\ UNCHANGED <<cfgvars, fnvars, nrounds, stop, ctxvars, dvars, kvars, obsvars>>

\* Continuous mode of one channel together with its event source.
InitEdges ==
    /\ InitWatch
    /\ ngpio = 1
    /\ mode = "MODE_DEFAULT"
    /\ keyboard_ret = 0

NextEdges ==
    \/ Next
    \/ \E i \in Chan : EdgeArrives(i)
    \/ \E i \in Chan : LoopQueuedEdge(i)

SpecEdges == InitEdges /\ [][NextEdges]_vars

\* Continuous mode with every worker created, under a scheduler and a mutex
\* that do not starve a thread: a thread that can take a step again and again
\* eventually takes one.  A worker holds the mutex for one store per
\* measurement and the driver for one pass of its loop, so a thread blocked on
\* the mutex finds it free again and again.  One output mode, no warmup phase;
\* the monitor acts on the others through stop alone, which the interrupt
\* sets as well, so the runs without a monitor are explored.
InitLive ==
    /\ InitWatch
    /\ mode = "MODE_DEFAULT"
    /\ warmup = 0
    /\ keyboard_ret = 1
    /\ \A i \in Chan : threads[i]

NextLive == WorkersNext \/ WatchDriver \/ Interrupt

Scheduling ==
    /\ \A i \in 1..MaxN : SF_vars(i \in Chan /\ WorkerStep(i))
    /\ SF_vars(WatchDriver)

SpecLive == InitLive /\ [][NextLive]_vars /\ Scheduling

\* ------------------------------------------------------------------ claims
\* The driver is emitting: it has decided to use the current round.
Emitting == dpc \in {"stats", "output", "reset"}

\* C1: the driver leaves its wait on the round barrier only when every
\* finished flag is set or stop is set; while it uses a round (statistics,
\* output, reset) every finished flag is set.
C1_BarrierRelease ==
    /\ dpc = "ifstop" => ((\A i \in Chan : finished[i]) \/ stop)
    /\ Emitting => \A i \in Chan : finished[i]

C1_Witness ==
    /\ dpc = "ifstop" /\ ~stop /\ ngpio = MaxN
    /\ \A i \in Chan : finished[i]

\* C2: the step in which the driver observes stop, and every step after it,
\* updates no statistics, writes no output and clears no finished flag, and
\* the driver is on its way out of the main loop.
C2_NoEmitAfterStop ==
    [][drv_saw_stop' =>
          /\ stats' = stats
          /\ out' = out
          /\ \A i \in Chan : finished[i] => finished'[i]
          /\ dpc' \in {"ifstop", "unlock", "outer", "join", "kjoin",
                       "cleanup", "returned"}]_vars

\* The driver saw stop with a complete round in the table, and dropped it.
C2_Witness ==
    /\ drv_saw_stop /\ dpc = "unlock"
    /\ ngpio = MaxN /\ \A i \in Chan : finished[i]

\* C3: every value the driver feeds to the statistics or prints is a
\* non-negative rpm that the channel's worker stored since the last reset;
\* the interrupted sentinel and unwritten slots are never used.
C3_OnlyCompletedSamples ==
    /\ Emitting =>
          \A i \in Chan :
              /\ results[i] >= 0
              /\ \E k \in 1..Len(order) : order[k] = i
    /\ dpc \in {"output", "reset"} =>
          \A i \in Chan : stats[i].count >= 1 /\ stats[i].min >= 0
    /\ dpc = "reset" =>
          /\ Len(out.entries) = ngpio
          /\ \A k \in 1..ngpio : out.entries[k].rpm = results[k]
                                 /\ out.entries[k].rpm >= 0

C3_Witness ==
    /\ dpc = "reset" /\ ngpio = MaxN /\ stop
    /\ \A k \in 1..ngpio : out.entries[k].rpm > 0
    /\ \E i \in Chan : wpc[i] = "done" /\ wres[i] = "INTERRUPTED"

\* C4: in single-shot mode no entry is printed for a channel whose
\* measurement ended as Interrupted.
C4_InterruptedOmitted ==
    dpc \in {"cleanup", "returned"} =>
        \A i \in Chan :
            (wpc[i] = "done" /\ wres[i] = "INTERRUPTED" /\ stop) =>
                \A k \in 1..Len(out.entries) : out.entries[k].gpio # GpioList[i]

\* C5: every emission lists the channels in request order, whatever the
\* order in which the workers recorded.
RECURSIVE IndexOf(_, _)
IndexOf(g, k) ==
    IF k > Len(GpioList) THEN 0
    ELSE IF GpioList[k] = g THEN k ELSE IndexOf(g, k + 1)

C5_OutputInRequestOrder ==
    /\ \A k \in 1..(Len(out.entries) - 1) :
          IndexOf(out.entries[k].gpio, 1) < IndexOf(out.entries[k + 1].gpio, 1)
    /\ (watch /\ out # NoOutput) =>
          \A k \in 1..ngpio : out.entries[k].gpio = GpioList[k]

\* A round was printed although the second channel recorded first.
C5_Witness ==
    /\ Len(out.entries) = MaxN /\ MaxN > 1
    /\ Len(order) = MaxN /\ order[1] # 1

\* C6: a worker starts the measurement of the next round only after the
\* round its last sample belongs to has been printed and flushed.
C6_OutputBeforeNextRound ==
    [][\A i \in Chan :
          (wpc[i] = "loop" /\ wpc'[i] \in {"warmup", "measure"}) => flushed[i]]_vars

\* C7: a worker stores into its slot only when the slot's finished flag is
\* clear, so no sample is overwritten before the driver has emitted it.
C7_OneWritePerRound ==
    [][\A i \in Chan :
          (wpc[i] = "store" /\ wpc'[i] # "store") => ~finished[i]]_vars

\* C8: once stop is set, every worker, the keyboard monitor and the driver
\* leave their loops, the driver joins them all and run_watch_mode returns.
AllExited ==
    /\ dpc = "returned"
    /\ \A i \in Chan : Terminated(i)
    /\ kpc \in {"none", "done"}

C8_StopTerminates == stop ~> AllExited

\* Everything has exited after a stop that came before any worker recorded.
C8_Witness ==
    /\ stop /\ AllExited
    /\ ngpio = MaxN /\ kpc = "done"
    /\ \A i \in Chan : wpc[i] = "done" /\ ~finished[i]

\* C9: the driver holds the mutex only between its lock and unlock and never
\* while it waits; a thread that cannot step is a worker blocked on the mutex
\* whose holder can step, or the driver joining a thread that can step; before
\* run_watch_mode returns some thread can always take a step.
CanStepW(i) == ENABLED <<WorkerStep(i)>>_vars
CanStepD == ENABLED <<WatchDriver>>_vars
CanStepK == ENABLED <<Keyboard>>_vars

HolderCanStep ==
    \/ results_mutex = Driver /\ CanStepD
    \/ \E j \in Chan : results_mutex = Worker(j) /\ CanStepW(j)

C9_NoDeadlock ==
    /\ dpc = "wait" => results_mutex # Driver
    /\ results_mutex = Driver =>
          dpc \in {"check", "ifstop", "stats", "output", "reset", "unlock"}
    /\ \A i \in Chan :
          ~Terminated(i) => (CanStepW(i) \/ (wpc[i] = "lock" /\ HolderCanStep))
    /\ kpc \in {"start", "poll"} => CanStepK
    /\ dpc # "returned" =>
          \/ CanStepD
          \/ dpc \in {"lock", "wait"} /\ HolderCanStep
          \/ dpc = "join" /\ \E i \in Chan : ~Terminated(i)
          \/ dpc = "kjoin" /\ CanStepK
    /\ dpc # "returned" => ENABLED <<WatchThreads>>_vars

\* The driver is waiting with the mutex released while a worker holds it.
C9_Witness ==
    /\ dpc = "wait" /\ ~stop
    /\ \E i \in Chan : results_mutex = Worker(i)
    /\ \E j \in Chan : wpc[j] = "lock"

\* C10: with two or more channels of which some opened, a channel that failed
\* to open (or whose thread was not created) is left out of the rounds: the
\* driver goes back to waiting only while a channel that did open has yet to
\* record.
OpenFailed(i) == wpc[i] \in {"none", "failed"}

StoreStep(j) == wpc[j] = "store" /\ wpc'[j] # "store"

\* The driver's reset of the finished flags.
ResetStep == dpc = "reset" /\ dpc' # "reset"

C13_StopMonotonic == [][stop => stop']_vars

\* stop was set and every thread ran to its end with it still set.
C13_Witness ==
    /\ stop /\ dpc = "returned" /\ kpc = "done"
    /\ \A i \in Chan : wpc[i] = "done"

\* C14: every write to the result table (a worker's store, the driver's
\* reset) is made by the thread that holds the mutex, and nothing else changes
\* the table.
C14_WritesUnderMutex ==
    [][/\ \A j \in Chan : StoreStep(j) => results_mutex = Worker(j)
       /\ ResetStep => results_mutex = Driver
       /\ (results' # results \/ finished' # finished)
             => (ResetStep \/ \E j \in Chan : StoreStep(j))]_vars

\* A single channel in single-shot mode is about to store, holding the mutex.
C14_Witness ==
    /\ ~watch /\ ngpio = 1
    /\ wpc[1] = "store" /\ results_mutex = Worker(1) /\ wrpm[1] > 0

\* C15: slot j changes, and flag j is set, only in a store of worker j; no
\* step of the driver changes a result slot.
C15_OwnSlotOnly ==
    [][/\ \A j \in Chan :
             (results'[j] # results[j] \/ (finished'[j] /\ ~finished[j]))
                 => (StoreStep(j) /\ wpc'[j] = "loop")
       /\ dpc' # dpc => results' = results]_vars

\* Every worker has recorded, and two slots hold different values.
C15_Witness ==
    /\ ngpio = MaxN
    /\ \A i \in Chan : finished[i]
    /\ \E i, j \in Chan : results[i] # results[j]

\* C16: a store that completes the round (every flag set) while the driver
\* waits on the condition signals it, for every channel count.
C16_LastStoreSignals ==
    [][\A i \in Chan :
          (StoreStep(i) /\ dpc = "wait" /\ \A j \in Chan : finished'[j])
              => cond_signalled']_vars

\* C17: a finished flag is cleared only by the driver's reset, after the
\* round's statistics and output; from the moment the driver has seen every
\* flag set until it has cleared them it holds the mutex and no worker writes
\* the table.
C17_ResetAfterConsume ==
    [][/\ (\E j \in Chan : finished[j] /\ ~finished'[j])
             => /\ ResetStep
                /\ results_mutex = Driver
                /\ Len(out.entries) = ngpio
                /\ \A j \in Chan : stats[j].count >= 1
                /\ wvars' = wvars
       /\ dpc \in {"ifstop", "stats", "output", "reset"}
             => /\ results_mutex = Driver
                /\ results' = results
                /\ (finished' = finished \/ ResetStep)
                /\ \A j \in Chan : ~StoreStep(j)]_vars

\* The driver has consumed and cleared a round while a worker was waiting for
\* the mutex with its next sample.
C17_Witness ==
    /\ dpc = "unlock" /\ ~drv_saw_stop /\ out # NoOutput
    /\ \A j \in Chan : ~finished[j]
    /\ \E j \in Chan : wpc[j] = "lock"

\* C18: in single-shot mode a worker that opened its channel has invoked
\* gpio_measure_rpm exactly once, from the start of the call on and whatever
\* its outcome; no worker ever invokes it twice.
C18_SingleShotOneCall ==
    \A i \in Chan :
        /\ ncalls[i] <= 1
        /\ wpc[i] \notin {"none", "init", "failed"} => ncalls[i] = 1

\* stop was set before the worker started; its one call came back interrupted.
C18_Witness ==
    /\ ~watch /\ stop
    /\ \E i \in Chan : wpc[i] = "done" /\ wres[i] = "INTERRUPTED" /\ ncalls[i] = 1
    /\ \E i \in Chan : wpc[i] = "init"

RestoredOnReturn ==
    (kpc = "done" \/ dpc = "returned") =>
        (term_mode = "orig" /\ ~terminal_modified)

\* C21: once the monitor has ended, and when run_watch_mode has returned, the
\* input stream is in its original mode and terminal_modified is 0; when the
\* process has exited, whatever the monitor was doing, the exit handler has
\* left the input stream in its original mode.
C21_TerminalRestored ==
    /\ RestoredOnReturn
    /\ dpc = "exited" => term_mode = "orig"

\* The monitor has ended without the stop flag being set: its entry failed
\* (every way out of its polling loop has stop set).
StartFailed == kpc = "done" /\ ~stop

\* The positions of the driver inside its main loop.
DriverInLoop ==
    dpc \in {"outer", "lock", "check", "wait", "ifstop", "stats", "output",
             "reset", "unlock"}

\* C22: when the monitor's entry fails (tcgetattr or tcsetattr), the monitor
\* ends in that step without setting the stop flag, without touching the
\* input stream and without writing anything; afterwards only the external
\* interrupt sets the stop flag, and until then the driver stays in its main
\* loop.
C22_StartFailureIsSilent ==
    [][/\ (kpc = "start" /\ kpc' = "done") =>
              /\ stop' = stop
              /\ term_mode' = "orig" /\ ~terminal_modified'
              /\ out' = out
       /\ (StartFailed /\ stop') => Interrupt
       /\ StartFailed => DriverInLoop
       /\ StartFailed' => DriverInLoop']_vars

\* A round is printed after the monitor's entry failed.
C22_Witness == StartFailed /\ dpc = "reset" /\ Len(out.entries) = ngpio

\* C23: while the monitor polls with stop unset, reading 'q' or 'Q' sets the
\* stop flag and ends the monitor, and does nothing else; reading any other
\* character, or nothing, leaves the stop flag alone and the monitor polling;
\* once stop is set the monitor leaves its loop.
C23_QuitKeyOnly ==
    /\ (kpc = "poll" /\ ~stop) =>
          \A ch \in Keys :
             IF ch \in {"q", "Q"}
             THEN /\ ENABLED (KeyboardRead(ch) /\ stop' /\ kpc' = "done")
                  /\ ~ENABLED (KeyboardRead(ch) /\ ~(stop' /\ kpc' = "done"))
             ELSE /\ ENABLED KeyboardRead(ch)
                  /\ ~ENABLED (KeyboardRead(ch) /\ (stop' \/ kpc' # "poll"))
    /\ (kpc = "poll" /\ stop) => ENABLED KeyboardExit

\* The monitor is polling while a round is printed, and an upper-case quit
\* key would stop the run there.
C23_Witness ==
    /\ kpc = "poll" /\ ~stop /\ dpc = "reset"
    /\ ENABLED (KeyboardRead("Q") /\ stop' /\ kpc' = "done")

\* The reference accumulator over a sequence of samples.
RECURSIVE SeqSum(_)
SeqSum(q) == IF q = <<>> THEN 0 ELSE q[1] + SeqSum(Tail(q))

SeqMin(q) == CHOOSE v \in {q[k] : k \in 1..Len(q)} :
                \A k \in 1..Len(q) : v <= q[k]

SeqMax(q) == CHOOSE v \in {q[k] : k \in 1..Len(q)} :
                \A k \in 1..Len(q) : v >= q[k]

\* C24: after stats_init and any sequence of stats_update calls, count is the
\* number of samples, sum their sum, min and max the least and the greatest
\* of them, and stats_avg is sum / count, or 0 without samples; the samples
\* 800, 900, 1000 give min 800, max 1000 and average 900.
C24_StatsMatchReference ==
    LET n == Len(fcall)
        st == fret.stats
    IN  /\ st.count = n
        /\ st.sum = SeqSum(fcall)
        /\ n > 0 => (st.min = SeqMin(fcall) /\ st.max = SeqMax(fcall))
        /\ n = 1 => (st.min = fcall[1] /\ st.max = fcall[1])
        /\ fret.avg = IF n = 0 THEN 0 ELSE SeqSum(fcall) \div n
        /\ fcall = <<800, 900, 1000>> =>
              (st.min = 800 /\ st.max = 1000 /\ fret.avg = 900)

\* The samples 800, 900, 1000 have been accumulated.
C24_Witness ==
    /\ fcall = <<800, 900, 1000>>
    /\ fret.stats = [min |-> 800, max |-> 1000, sum |-> 2700, count |-> 3]
    /\ fret.avg = 900

\* C26: for elapsed > 0 the returned rpm is (count / pulses) / elapsed * 60,
\* here its whole part: rpm * pulses * elapsed <= count * 60 <
\* (rpm + 1) * pulses * elapsed; count 120, 4 pulses, 2 s give 900.
C26_RpmFormula ==
    (fret.called /\ fcall.elapsed > 0) =>
        LET d == fcall.pulses * fcall.elapsed
        IN  /\ fret.rpm * d <= fcall.count * 60
            /\ fcall.count * 60 < (fret.rpm + 1) * d
            /\ (fcall.count = 120 /\ fcall.pulses = 4 /\ fcall.elapsed = 2) =>
                  fret.rpm = 900

\* The example of the claim has been computed.
C26_Witness ==
    /\ fret.called
    /\ fcall = [count |-> 120, pulses |-> 4, elapsed |-> 2]
    /\ fret.rpm = 900

\* C27: for elapsed <= 0 the returned rpm is 0 whatever the edge count, and
\* gpio_thread_fn treats it as a sample to record, not as the interrupted or
\* failed value.
C27_DegenerateElapsedIsZero ==
    (fret.called /\ fcall.elapsed <= 0) =>
        /\ fret.rpm = 0
        /\ fret.rpm # Interrupted
        /\ fret.next = {"lock"}

\* A phase with 120 edges and no elapsed time has been computed.
C27_Witness ==
    /\ fret.called
    /\ fcall.count = 120 /\ fcall.elapsed = 0
    /\ fret.rpm = 0

\* The driver's stats_update loop runs: a round is emitted.
RoundEmitted == dpc = "stats" /\ dpc' = "output"

\* C25: the statistics start from stats_init and are changed by the
\* stats_update loop of an emitted round only; for every channel count never
\* decreases and grows by exactly 1 per emitted round (as far as the
\* statistics are followed), min never increases and max never decreases once
\* there is a sample, and min <= average <= max whenever count > 0.
C25_StatsNeverReset ==
    /\ \A i \in Chan : stats[i] = stats_init
    /\ [][\A i \in Chan :
            /\ stats'[i].count >= stats[i].count
            /\ stats'[i] # stats[i] => RoundEmitted
            /\ (RoundEmitted /\ stats[i].count < nfollow) =>
                   stats'[i].count = stats[i].count + 1
            /\ stats[i].count > 0 =>
                   (stats'[i].min <= stats[i].min /\ stats'[i].max >= stats[i].max)
            /\ stats'[i].count > 0 =>
                   /\ stats'[i].min <= stats_avg(stats'[i])
                   /\ stats_avg(stats'[i]) <= stats'[i].max]_vars

\* Two rounds have been emitted and both channels have seen two different
\* samples.
C25_Witness ==
    /\ ngpio = 2
    /\ dpc = "output"
    /\ \A i \in Chan :
          /\ stats[i].count = 2
          /\ stats[i].min < stats[i].max
          /\ stats[i].min <= stats_avg(stats[i])
          /\ stats_avg(stats[i]) <= stats[i].max

\* C28: a configuration accepted by parse_arguments and validate_arguments
\* has 1 to 10 channels, all different, a duration in 1..3600, a warmup in
\* 0..60 that is less than the duration, and 1..100 pulses per revolution.
C28_AcceptedInRanges ==
    (fret.called /\ fret.accepted) =>
        LET c == fret.cfg
        IN  /\ Len(c.gpios) >= 1 /\ Len(c.gpios) <= 10
            /\ \A i, j \in 1..Len(c.gpios) : i # j => c.gpios[i] # c.gpios[j]
            /\ c.duration >= 1 /\ c.duration <= 3600
            /\ c.warmup >= 0 /\ c.warmup <= 60
            /\ c.warmup < c.duration
            /\ c.pulses >= 1 /\ c.pulses <= 100

\* The gpio context of worker i is open: opened once and not closed.
HandleOpen(i) == handle[i] = [opens |-> 1, closes |-> 0]

\* C29: a worker opens its gpio context at most once and closes it at most
\* once, and only after opening it; every timed phase, and every position
\* inside the measurement loop, is on the open context; a worker that has
\* ended has closed the context if it opened one, and a worker that left the
\* measurement loop has opened and closed it exactly once.
C29_HandleLifecycle ==
    \A i \in Chan :
       /\ handle[i].opens <= 1
       /\ handle[i].closes <= handle[i].opens
       /\ wpc[i] \in {"warmup", "measure", "lock", "store", "loop"} => HandleOpen(i)
       /\ Terminated(i) => handle[i].closes = handle[i].opens
       /\ wpc[i] = "done" => handle[i] = [opens |-> 1, closes |-> 1]

\* A worker has run a second measurement call on its context and has ended
\* with the context closed, next to a worker whose line request failed.
C29_Witness ==
    /\ \E i \in Chan :
          wpc[i] = "done" /\ ncalls[i] = MaxCalls /\ finished[i]
             /\ handle[i] = [opens |-> 1, closes |-> 1]
    /\ \E i \in Chan :
          wpc[i] = "failed" /\ handle[i] = [opens |-> 1, closes |-> 1]

\* C30: a worker that opened its gpio context has left its measurement loop
\* and ended only if the stop flag is set.
C30_ExitOnlyAfterStop == \A i \in Chan : wpc[i] = "done" => stop


\* C31: in every emitted round of continuous mode the statistics are updated
\* from the round's outcomes before the round is formatted.  The update step
\* adds each channel's slot value to that channel's statistics and leaves the
\* slots alone; when round K (K >= 1) is printed each channel's count is K,
\* its min and max enclose the round's value, and the printed entry carries
\* the round's value with the updated min, max and average.
C31_StatsBeforeFormat ==
    [][/\ (dpc = "stats" /\ dpc' = "output") =>
            /\ results' = results
            /\ \A i \in Chan : stats[i].count < nfollow =>
                   /\ stats'[i].count = stats[i].count + 1
                   /\ stats'[i].sum = stats[i].sum + results[i]
       /\ (dpc = "output" /\ dpc' = "reset" /\ nrounds < nfollow) =>
            LET K == nrounds'
            IN  /\ K = nrounds + 1
                /\ Len(out'.entries) = ngpio
                /\ \A i \in 1..ngpio :
                       /\ stats[i].count = K
                       /\ stats[i].min <= results[i]
                       /\ results[i] <= stats[i].max
                       /\ K = 1 => stats[i].sum = results[i]
                       /\ out'.entries[i].rpm = results[i]
                       /\ out'.entries[i].min = stats[i].min
                       /\ out'.entries[i].max = stats[i].max
                       /\ out'.entries[i].avg = stats[i].sum \div K]_vars

\* The second round of two channels has just been printed, with a value that
\* differs from the first round's.
C31_Witness ==
    /\ dpc = "reset"
    /\ nrounds = 2
    /\ ngpio = 2
    /\ \A i \in Chan : stats[i].count = 2 /\ stats[i].min < stats[i].max
    /\ Len(out.entries) = 2

\* C39: on the wall-clock fallback path, with stop unset and no read error,
\* the loop does not return Completed before the full phase duration has
\* elapsed on the monotonic clock since the recorded start time, seconds and
\* nanoseconds both taken into account.
C39_FallbackFullDuration ==
    (fret.called /\ fret.result = "COMPLETED") =>
        LET secs == fcall.current_ts.tv_sec - fcall.start_ts.tv_sec
        IN  \/ secs > fcall.duration_sec
            \/ /\ secs = fcall.duration_sec
               /\ fcall.current_ts.tv_nsec >= fcall.start_ts.tv_nsec

\* C32: the timed phase loop returns Completed only if the deadline was
\* reached and Interrupted only if the stop flag was set, and the timer path
\* and the wall-clock fallback path return the same result code for the same
\* sequence of deadline, stop, edge and read-error events.
C32_PathsAgree ==
    fret.called =>
        /\ \A p \in TimerPaths :
              /\ fret.result[p] = "COMPLETED" =>
                     \E k \in 1..Len(fcall) : fcall[k] = "deadline"
              /\ fret.result[p] = "INTERRUPTED" =>
                     \E k \in 1..Len(fcall) : fcall[k] = "stop"
        /\ fret.result["timerfd"] = fret.result["fallback"]

\* C34: a measurement that ends as Interrupted leaves the shared result table
\* unchanged.  The step in which a worker's call returns Interrupted takes the
\* worker out of its loop without a write to any slot or flag and without a
\* signal, and a worker that has left its loop never writes again: its slot
\* keeps its value and its flag is not set by it.
C34_InterruptedLeavesTable ==
    [][\A i \in Chan :
          /\ (wres'[i] = "INTERRUPTED" /\ wres[i] # "INTERRUPTED") =>
                /\ wpc'[i] = "done"
                /\ wrpm'[i] = Interrupted
                /\ results' = results
                /\ finished' = finished
                /\ cond_signalled' = cond_signalled
                /\ results_mutex' = results_mutex
          /\ wpc[i] = "done" =>
                /\ results'[i] = results[i]
                /\ finished'[i] => finished[i]]_vars

\* A worker recorded 60 rpm in an earlier round and its next measurement ended
\* as Interrupted: the slot still holds 60.
C34_Witness ==
    \E i \in Chan :
        /\ wpc[i] = "done"
        /\ wres[i] = "INTERRUPTED"
        /\ stop
        /\ results[i] = 60
        /\ ncalls[i] >= 2

\* C35: the values emitted for one round of continuous mode are a consistent
\* snapshot.  From the step after the driver's scan found every finished flag
\* set until the flags are cleared the driver owns the result-table mutex in
\* every state, and no step taken in between changes a result slot or, before
\* the reset, a finished flag; what is printed is what the statistics were
\* updated with.
C35_ConsistentSnapshot ==
    [][/\ (dpc = "check" /\ dpc' = "ifstop") => results_mutex' = Driver
       /\ dpc \in {"ifstop", "stats", "output", "reset"} =>
             /\ results_mutex = Driver
             /\ results_mutex' = Driver
             /\ results' = results
             /\ dpc # "reset" => finished' = finished
       /\ (dpc = "output" /\ dpc' = "reset") =>
             \A i \in 1..ngpio : out'.entries[i].rpm = results[i]]_vars

\* The driver has printed a round of two channels and not yet cleared the
\* flags, while a worker waits at the mutex with a different next value.
C35_Witness ==
    /\ dpc = "reset"
    /\ ngpio = 2
    /\ results_mutex = Driver
    /\ \E i \in Chan : wpc[i] = "lock" /\ wrpm[i] # results[i]

\* C37: the shared measurement context is destroyed only after every created
\* worker thread, and the keyboard monitor if it was created, has terminated,
\* and no worker touches the result table or the mutex after cleanup, in both
\* modes.  Whenever a step ends with the context destroyed, every created
\* worker has returned and a created monitor has returned; once the context is
\* destroyed no step changes the table, the flags, the mutex or a worker.
C37_CleanupAfterThreads ==
    [][/\ ~ctx_live' =>
             /\ \A i \in Chan :
                   IF threads[i] THEN wpc'[i] \in {"failed", "done"}
                   ELSE wpc'[i] = "none"
             /\ (watch /\ keyboard_ret = 0) => kpc' = "done"
       /\ ~ctx_live =>
             /\ ~ctx_live'
             /\ results' = results
             /\ finished' = finished
             /\ results_mutex' = results_mutex
             /\ cond_signalled' = cond_signalled
             /\ wpc' = wpc]_vars

\* run_watch_mode has cleaned up after two created workers and a created
\* monitor, all returned.
C37_Witness ==
    /\ ~ctx_live
    /\ watch
    /\ ngpio = 2
    /\ \A i \in Chan : threads[i] /\ wpc[i] = "done"
    /\ keyboard_ret = 0
    /\ kpc = "done"
    /\ dpc = "returned"

\* C38: in single-shot mode the driver emits output exactly once per run and
\* only after every created worker thread has terminated.  The output changes
\* in one step only, the output block, taken from the empty output with every
\* worker returned; the run does not return without it; and while the block
\* reads the slots no step writes one.
C38_SingleOutputOnce ==
    [][/\ out' # out =>
             /\ dpc = "single_output"
             /\ out = NoOutput
             /\ out' = SingleOutput(mode, ngpio, results, stats, order)
             /\ \A i \in Chan : wpc[i] \in {"none", "failed", "done"}
       /\ dpc' = "returned" => out'.format # "none"
       /\ dpc \in {"single_output", "cleanup", "returned"} =>
             /\ results' = results
             /\ wpc' = wpc]_vars

\* A run with two created workers has returned after printing both values.
C38_Witness ==
    /\ ~watch
    /\ dpc = "returned"
    /\ ngpio = 2
    /\ \A i \in Chan : threads[i] /\ wpc[i] = "done"
    /\ Len(out.entries) = 2

\* C33: every edge counted toward an RPM sample arrived during that sample's
\* measurement phase.  An edge that arrived during warmup, during the priming
\* round or between two rounds is never added to a sample's count: reading it
\* leaves the count of a measurement phase alone (the count of the priming
\* call is no sample).
C33_CountsOnlyPhaseEdges ==
    [][\A i \in Chan :
          (pending'[i] < pending[i] /\ ~priming[i]) => count'[i] = count[i]]_vars

\* C36: in continuous mode, when every channel opened successfully, no worker
\* leaves its loop on an error and stop is never set, the driver makes
\* progress forever: a round in which every worker has recorded is eventually
\* emitted and reset, and rounds are emitted again and again, for one channel
\* as for several.
Halted == stop \/ \E i \in Chan : wpc[i] \in {"none", "failed", "done"}

C36_DriverProgress ==
    /\ (\A i \in Chan : finished[i]) ~>
           (Halted \/ (dpc = "unlock" /\ \A i \in Chan : ~finished[i]))
    /\ []<>(Halted \/ dpc = "reset")

\* The driver has emitted a round of one channel, whose worker never signals,
\* and is about to reset it; nothing has stopped.
C36_Witness ==
    /\ ngpio = 1
    /\ dpc = "reset"
    /\ nrounds = 1
    /\ ~Halted
    /\ finished[1]
    /\ Len(out.entries) = 1
====
